---- MODULE Spec2Model ----
(***************************************************************************)
(* Model of the dolma acquisition pipeline: the Fetcher                    *)
(* (scripts/download.py, download/download.py), the Extractor              *)
(* (scripts/unzip.py, scripts/utils/io_utils.py), the blog scanner         *)
(* (scripts/parse_blogs.py), the worker pools of the two main programs and *)
(* the runner that chains them (scripts/pipeline_runner.py).               *)
(*                                                                         *)
(* Strings are modelled as sequences of tokens: a token is an atomic piece *)
(* of text ("blog", ".", "/", "7", ...) and the string is the              *)
(* concatenation of its tokens.  File contents are sequences of chunks.    *)
(***************************************************************************)
EXTENDS Integers, Sequences, FiniteSets, TLC

VARIABLES
    \* ---- Fetcher: download_one ----
    fs,        \* destination directory: file name -> content, or NoFile
    fpc,       \* position of the running download_one call: idle / try / sleep
    furl,      \* its url argument
    retry,     \* its retry argument
    attempt,   \* the loop variable of "for attempt in range(1, retry + 1)"
    nreq,      \* requests.get calls issued by the call (history)
    nfail,     \* attempts of the call that raised (history)
    slept,     \* sum of the time.sleep arguments of the call (history)
    foutcome,  \* what the call logged: Skipped / Completed / Failed
    fpartial,  \* whether a failed attempt of the call wrote part of a body
               \* to the destination (history)
    flast      \* per url (history): the outcome of its last finished call,
               \* whether that call was Skipped right after a Completed one,
               \* and the body that Completed call wrote; for a Failed call,
               \* what its attempts left in the destination file

VARIABLES
    \* ---- Extractor: decompress_file ----
    srcdir,    \* input directory: file name -> compressed file, or NoSrc
    dstdir,    \* output directory: file name -> content, or NoFile
    xpc,       \* position of the running decompress_file call: idle / decompress
    xsrc,      \* its src argument (a file name of the input directory)
    xdel,      \* its delete_src argument
    ninvoke,   \* decompress_zst / decompress_gz calls made by the call (history)
    xoutcome,  \* what the call logged: Skipped / Completed / Failed
    xreason,   \* which skip it logged
    xlast      \* per source (history): the outcome of its last finished call and
               \* whether that call was Skipped right after a Completed one

fvars == <<fs, fpc, furl, retry, attempt, nreq, nfail, slept, foutcome, fpartial,
           flast>>
xvars == <<srcdir, dstdir, xpc, xsrc, xdel, ninvoke, xoutcome, xreason, xlast>>

VARIABLES
    \* ---- UrlClassifier: is_blog_url ----
    curl,      \* the url argument
    cdone,     \* whether is_blog_url has returned
    cres       \* the value it returned

cvars == <<curl, cdone, cres>>

VARIABLES
    \* ---- RecordScanner: main and parse_jsonl_to_csv of parse_blogs.py ----
    sfiles,      \* the files under input_jsonl, by path: per file, per line,
                 \* whether its bytes decode
    jsonl_files, \* main's jsonl_files: the paths in the order they are scanned
    min_len,     \* the min_text_length option
    spc,         \* position of main: start / loop / scan / done / nofiles / crashed
    sfi,         \* index in jsonl_files of the file being scanned
    spos,        \* lines of that file the iterator "for line in fin" has yielded
    sbuf,        \* decoded lines the reader holds and has not yielded yet
    stotal,      \* parse_jsonl_to_csv's total
    skept,       \* parse_jsonl_to_csv's kept
    sline,       \* the line the loop body last ran on (history)
    sraised,     \* whether that run ended in the except branch (history)
    out,         \* output_csv: header rows and data rows written
    sret,        \* per scanned file: the (total, kept) returned, and the rows
                 \* written during its scan (history)
    total_lines, \* main's total_lines
    total_kept   \* main's total_kept

svars == <<sfiles, jsonl_files, min_len, spc, sfi, spos, sbuf, stotal, skept, sline, sraised,
           out, sret, total_lines, total_kept>>

VARIABLES
    \* ---- one run of a pooled stage: main of download.py or of unzip.py ----
    stage,       \* which of the two programs runs: fetch / extract
    out_dir,     \* the destination directory: file name -> content, or NoFile
    input_dir,   \* unzip: the input directory: file name -> compressed file
    items,       \* main's urls (download.py) or files (unzip.py)
    workers,     \* max_workers of the ThreadPoolExecutor
    rretry,      \* download.py main's retry
    delete_src,  \* unzip.py main's delete_src
    rpc,         \* position of main: start / pool / done / noitems
    exit_code,   \* the exit code of the process, -1 while it runs
    task         \* per item: where its call stands (queued / call / try /
                 \* decompress / returned, and at which step of the try), the
                 \* position and the buffer of its open file object, the
                 \* attempt it is at,
                 \* the outcome it logged, and how often it was handed to a
                 \* worker and logged an outcome (history)

rvars == <<stage, out_dir, input_dir, items, workers, rretry, delete_src, rpc,
           exit_code, task>>

VARIABLES
    \* ---- pipeline_runner.py main with the download process it starts ----
    pstage,      \* the --stage argument
    now,         \* the wall clock, in ticks
    ppc,         \* position of the runner: start / download / downloading /
                 \* unzip / done / failed
    dl_ts,       \* the runner's dl_ts
    ts,          \* download.py main's ts
    dl_code,     \* the exit code of the download process, -1 before it exits
    passed       \* the download_timestamp value handed to unzip.py

pvars == <<pstage, now, ppc, dl_ts, ts, dl_code, passed>>

vars == <<fvars, xvars, cvars, svars, rvars, pvars>>

-----------------------------------------------------------------------------
(* Bounds *)
MaxRetry == 2
MaxBody == 1
MaxBlocks == 1
MaxHostLen == 4
MaxPathLen == 5
MaxFiles == 2
MaxLines == 3
MaxMinLen == 2
MaxWorkers == 2
MaxItems == 2
MaxClock == 5
TicksPerSecond == 2

-----------------------------------------------------------------------------
(* Generic helpers on token sequences *)

SeqsUpTo(S, n) == UNION {[1..k -> S] : k \in 0..n}

RECURSIVE SumTo(_)
SumTo(n) == IF n <= 0 THEN 0 ELSE n + SumTo(n - 1)

\* the position of the last occurrence of token t in s, 0 if none
LastIndexOf(s, t) ==
    LET I == {i \in 1..Len(s) : s[i] = t}
    IN IF I = {} THEN 0 ELSE CHOOSE i \in I : \A j \in I : j <= i

-----------------------------------------------------------------------------
(* Fetcher *)

\* a directory entry: an absent file, or a file holding data
NoFile == [exists |-> FALSE, data |-> <<>>]
File(d) == [exists |-> TRUE, data |-> d]
NoUrl == [host |-> <<>>, path |-> <<>>]
Chunks == {1, 2}
Bodies == SeqsUpTo(Chunks, MaxBody)

\* urls handed to download_one, as urlparse splits them
FetchUrls ==
    { [host |-> <<"h">>, path |-> <<"/", "d", "/", "a">>],
      [host |-> <<"h">>, path |-> <<"/", "e", "/", "a">>],
      [host |-> <<"h">>, path |-> <<"/", "b">>] }

\* os.path.basename(urlparse(url).path): what follows the last "/"
safe_filename(url) ==
    SubSeq(url.path, LastIndexOf(url.path, "/") + 1, Len(url.path))

FetchNames == {safe_filename(u) : u \in FetchUrls}

RetryValues == 0..MaxRetry

SkipNever(dir, name) == FALSE
\* dst.exists() and dst.stat().st_size > 0
SkipExisting(dir, name) == dir[name].exists /\ Len(dir[name].data) > 0

RetryRangeShort(r) == 1..(r - 1)
\* range(1, retry + 1)
RetryRange(r) == 1..r

OpenAppend(f) == File(f.data)
\* open(dst, "wb"): the file is created, or cut to length 0
OpenWb(f) == File(<<>>)

\* the loop over r.iter_content: the chunks are written after what the open
\* file holds
WriteChunks(f, chunks) == File(f.data \o chunks)

\* time.sleep(2 * attempt)
BackoffDelay(a) == 2 * a

\* the history record of a url after a call of it finished with outcome o
Finished(h, o) ==
    LET again == o = "Skipped" /\ h.outcome = "Completed"
    IN [outcome |-> o, rerun |-> again, body |-> IF again THEN h.body ELSE <<>>]

FIdle ==
    /\ fs = [n \in FetchNames |-> NoFile]
    /\ fpc = "idle"
    /\ furl = NoUrl
    /\ retry = 0
    /\ attempt = 0
    /\ nreq = 0
    /\ nfail = 0
    /\ slept = 0
    /\ foutcome = "None"
    /\ fpartial = FALSE
    /\ flast = [u \in FetchUrls |-> [outcome |-> "None", rerun |-> FALSE, body |-> <<>>]]

FInit ==
    /\ fs \in [FetchNames -> {NoFile, File(<<>>), File(<<1>>)}]
    /\ fpc = "idle"
    /\ furl = NoUrl
    /\ retry = 0
    /\ attempt = 0
    /\ nreq = 0
    /\ nfail = 0
    /\ slept = 0
    /\ foutcome = "None"
    /\ fpartial = FALSE
    /\ flast = [u \in FetchUrls |-> [outcome |-> "None", rerun |-> FALSE, body |-> <<>>]]

\* download_one is called: the existence check, then the loop is entered
DlStart(u, r) ==
    /\ fpc = "idle"
    /\ furl' = u
    /\ retry' = r
    /\ nreq' = 0
    /\ nfail' = 0
    /\ slept' = 0
    /\ fpartial' = FALSE
    /\ fs' = fs
    /\ UNCHANGED <<xvars, cvars, svars, rvars, pvars>>
    /\ IF SkipExisting(fs, safe_filename(u))
       THEN /\ foutcome' = "Skipped"
            /\ fpc' = "idle"
            /\ attempt' = 0
            /\ flast' = [flast EXCEPT ![u] = Finished(flast[u], "Skipped")]
       ELSE IF 1 \in RetryRange(r)
       THEN /\ foutcome' = "None"
            /\ fpc' = "try"
            /\ attempt' = 1
            /\ flast' = flast
       ELSE /\ foutcome' = "Failed"
            /\ fpc' = "idle"
            /\ attempt' = 0
            /\ flast' = [flast EXCEPT ![u] = Finished(flast[u], "Failed")]

\* one attempt that gets the whole body b and writes it: "done", return
DlAttemptOk(b) ==
    /\ fpc = "try"
    /\ nreq' = nreq + 1
    /\ fs' = [fs EXCEPT ![safe_filename(furl)] =
                 WriteChunks(OpenWb(fs[safe_filename(furl)]), b)]
    /\ foutcome' = "Completed"
    /\ fpc' = "idle"
    /\ flast' = [flast EXCEPT ![furl] =
                    [Finished(flast[furl], "Completed") EXCEPT !.body = b]]
    /\ UNCHANGED <<furl, retry, attempt, nfail, slept, fpartial>>
    /\ UNCHANGED <<xvars, cvars, svars, rvars, pvars>>

\* one attempt that raises before open(dst, "wb"): connection error, non-2xx
DlAttemptFailEarly ==
    /\ fpc = "try"
    /\ nreq' = nreq + 1
    /\ nfail' = nfail + 1
    /\ fpc' = "sleep"
    /\ UNCHANGED <<fs, furl, retry, attempt, slept, foutcome, fpartial, flast>>
    /\ UNCHANGED <<xvars, cvars, svars, rvars, pvars>>

\* one attempt that raises after open(dst, "wb"), with p written so far
DlAttemptFailPartial(p) ==
    /\ fpc = "try"
    /\ nreq' = nreq + 1
    /\ nfail' = nfail + 1
    /\ fs' = [fs EXCEPT ![safe_filename(furl)] =
                 WriteChunks(OpenWb(fs[safe_filename(furl)]), p)]
    /\ fpartial' = (fpartial \/ p # <<>>)
    /\ fpc' = "sleep"
    /\ UNCHANGED <<furl, retry, attempt, slept, foutcome, flast>>
    /\ UNCHANGED <<xvars, cvars, svars, rvars, pvars>>

\* the except branch's time.sleep, then the next iteration or "failed"
DlSleep ==
    /\ fpc = "sleep"
    /\ slept' = slept + BackoffDelay(attempt)
    /\ IF attempt + 1 \in RetryRange(retry)
       THEN /\ attempt' = attempt + 1
            /\ fpc' = "try"
            /\ UNCHANGED <<foutcome, flast>>
       ELSE /\ attempt' = attempt
            /\ fpc' = "idle"
            /\ foutcome' = "Failed"
            /\ flast' = [flast EXCEPT ![furl] =
                            [Finished(flast[furl], "Failed") EXCEPT
                                !.body = fs[safe_filename(furl)].data]]
    /\ UNCHANGED <<fs, furl, retry, nreq, nfail, fpartial>>
    /\ UNCHANGED <<xvars, cvars, svars, rvars, pvars>>

FNext ==
    \/ \E u \in FetchUrls, r \in RetryValues : DlStart(u, r)
    \/ \E b \in Bodies : DlAttemptOk(b)
    \/ DlAttemptFailEarly
    \/ \E p \in Bodies : DlAttemptFailPartial(p)
    \/ DlSleep

-----------------------------------------------------------------------------
(* Extractor *)

\* a compressed file: the blocks its decompression yields, and whether the
\* stream is sound (ok) or the decompressor raises after yielding them
NoSrc == [exists |-> FALSE, data |-> <<>>, ok |-> FALSE]
Compressed(d, k) == [exists |-> TRUE, data |-> d, ok |-> k]
Blocks == {1}
SrcContents == {Compressed(d, k) : d \in SeqsUpTo(Blocks, MaxBlocks), k \in BOOLEAN}
NoName == <<>>

\* the files of the input directory
SrcNames ==
    { <<"a", ".jsonl", ".zst">>,
      <<"a", ".json", ".gz">>,
      <<"b", ".gz">>,
      <<"c", ".txt">> }

Exts == {".zst", ".gz", ".json", ".jsonl", ".txt"}

\* Path.suffix: the last extension of the name, "" if it has none
Suffix(name) ==
    IF Len(name) >= 2 /\ name[Len(name)] \in Exts THEN name[Len(name)] ELSE ""

\* Path.stem: the name without its suffix
Stem(name) ==
    IF Suffix(name) = "" THEN name ELSE SubSeq(name, 1, Len(name) - 1)

\* str.endswith
EndsWith(s, t) ==
    Len(s) >= Len(t) /\ SubSeq(s, Len(s) - Len(t) + 1, Len(s)) = t

\* str.replace: every occurrence of old, left to right, becomes new
RECURSIVE Replace(_, _, _)
Replace(s, old, new) ==
    IF Len(s) < Len(old) THEN s
    ELSE IF SubSeq(s, 1, Len(old)) = old
         THEN new \o Replace(SubSeq(s, Len(old) + 1, Len(s)), old, new)
         ELSE <<s[1]>> \o Replace(Tail(s), old, new)

\* src.suffix not in {".zst", ".gz"}
UnknownExt(name) == Suffix(name) \notin {".zst", ".gz"}

\* base.endswith(".json.jsonl")
LooksDecompressed(name) == EndsWith(name, <<".json", ".jsonl">>)

\* the if / elif chain that builds the output name
DstName(name) ==
    IF EndsWith(name, <<".jsonl", ".zst">>)
        THEN Replace(name, <<".jsonl", ".zst">>, <<".json", ".jsonl">>)
    ELSE IF EndsWith(name, <<".jsonl", ".gz">>)
        THEN Replace(name, <<".jsonl", ".gz">>, <<".json", ".jsonl">>)
    ELSE IF EndsWith(name, <<".json", ".zst">>)
        THEN Replace(name, <<".json", ".zst">>, <<".json", ".jsonl">>)
    ELSE IF EndsWith(name, <<".json", ".gz">>)
        THEN Replace(name, <<".json", ".gz">>, <<".json", ".jsonl">>)
    ELSE Stem(name) \o <<".jsonl">>

DstNames == {DstName(n) : n \in SrcNames}

DstNeverExists(dir, name) == FALSE
\* dst.exists()
DstExists(dir, name) == dir[name].exists

\* decompress_zst: open(outp, "wb"), copy the blocks the reader yields
decompress_zst(f) == [written |-> File(f.data), raised |-> ~f.ok]

\* decompress_gz: open(outp, "wb"), copy the blocks gzip yields
decompress_gz(f) == [written |-> File(f.data), raised |-> ~f.ok]

UnlinkAlways(del, raised) == del
\* src.unlink() is reached: inside "if delete_src", after a decompression
\* that did not raise
UnlinkReached(del, raised) == del /\ ~raised

RetryAfterError == "decompress"
\* where the call stands after the except branch logged "failed": it returns
AfterError == "idle"

XFinished(h, o) == [outcome |-> o, rerun |-> (o = "Skipped" /\ h.outcome = "Completed")]

XIdle ==
    /\ srcdir = [n \in SrcNames |-> NoSrc]
    /\ dstdir = [n \in DstNames |-> NoFile]
    /\ xpc = "idle"
    /\ xsrc = NoName
    /\ xdel = FALSE
    /\ ninvoke = 0
    /\ xoutcome = "None"
    /\ xreason = "None"
    /\ xlast = [n \in SrcNames |-> [outcome |-> "None", rerun |-> FALSE]]

\* a file that is no archive holds no compressed stream
NotAnArchive == Compressed(<<>>, FALSE)

XInit ==
    /\ srcdir \in {d \in [SrcNames -> SrcContents] :
                      \A n \in SrcNames : UnknownExt(n) => d[n] = NotAnArchive}
    /\ dstdir = [n \in DstNames |-> NoFile]
    /\ xpc = "idle"
    /\ xsrc = NoName
    /\ xdel = FALSE
    /\ ninvoke = 0
    /\ xoutcome = "None"
    /\ xreason = "None"
    /\ xlast = [n \in SrcNames |-> [outcome |-> "None", rerun |-> FALSE]]

XSkip(n, why) ==
    /\ xoutcome' = "Skipped"
    /\ xreason' = why
    /\ xpc' = "idle"
    /\ xlast' = [xlast EXCEPT ![n] = XFinished(xlast[n], "Skipped")]

\* decompress_file is called on a file of the input directory: the three
\* skips, or the try block is entered
ExCall(n, del) ==
    /\ xpc = "idle"
    /\ srcdir[n].exists
    /\ xsrc' = n
    /\ xdel' = del
    /\ ninvoke' = 0
    /\ IF UnknownExt(n) THEN XSkip(n, "unknown ext")
       ELSE IF LooksDecompressed(n) THEN XSkip(n, "looks decompressed")
       ELSE IF DstExists(dstdir, DstName(n)) THEN XSkip(n, "existing")
       ELSE /\ xoutcome' = "None"
            /\ xreason' = "None"
            /\ xpc' = "decompress"
            /\ xlast' = xlast
    /\ UNCHANGED <<srcdir, dstdir>>
    /\ UNCHANGED <<fvars, cvars, svars, rvars, pvars>>

\* the try block: the decompressor runs once; then "decompressed" and the
\* optional unlink (which may itself fail: unlinked = FALSE), or "failed"
ExDecompress(unlinked) ==
    /\ xpc = "decompress"
    /\ LET r == IF Suffix(xsrc) = ".zst" THEN decompress_zst(srcdir[xsrc])
                ELSE decompress_gz(srcdir[xsrc])
       IN /\ ninvoke' = ninvoke + 1
          /\ dstdir' = [dstdir EXCEPT ![DstName(xsrc)] = r.written]
          /\ srcdir' = IF UnlinkReached(xdel, r.raised) /\ unlinked
                       THEN [srcdir EXCEPT ![xsrc] = NoSrc] ELSE srcdir
          /\ IF r.raised
             THEN /\ xoutcome' = "Failed"
                  /\ xpc' = AfterError
             ELSE /\ xoutcome' = "Completed"
                  /\ xpc' = "idle"
          /\ xlast' = [xlast EXCEPT ![xsrc] =
                         XFinished(xlast[xsrc], IF r.raised THEN "Failed" ELSE "Completed")]
    /\ UNCHANGED <<xsrc, xdel, xreason>>
    /\ UNCHANGED <<fvars, cvars, svars, rvars, pvars>>

XNext ==
    \/ \E n \in SrcNames, del \in BOOLEAN : ExCall(n, del)
    \/ \E unlinked \in BOOLEAN : ExDecompress(unlinked)

-----------------------------------------------------------------------------
(* UrlClassifier *)

\* BLOG_DOMAINS
BLOG_DOMAINS ==
    { <<"wordpress", ".", "com">>, <<"blogspot", ".", "com">>,
      <<"medium", ".", "com">>, <<"substack", ".", "com">>,
      <<"tumblr", ".", "com">>, <<"ghost", ".", "io">>,
      <<"weebly", ".", "com">>, <<"wixsite", ".", "com">>,
      <<"squarespace", ".", "com">>, <<"livejournal", ".", "com">>,
      <<"typepad", ".", "com">>, <<"hubpages", ".", "com">>,
      <<"dev", ".", "to">>, <<"hashnode", ".", "dev">>,
      <<"github", ".", "io">>, <<"gitlab", ".", "io">>,
      <<"netlify", ".", "app">>, <<"vercel", ".", "app">>,
      <<"notion", ".", "site">>, <<"over-blog", ".", "com">>,
      <<"canalblog", ".", "com">>, <<"hatena", ".", "ne", ".", "jp">>,
      <<"ameblo", ".", "jp">>, <<"blog", ".", "sina", ".", "com", ".", "cn">> }

\* the tokens \d matches
Digits == {"7"}

\* str.lower on one token
LowerTok(t) ==
    IF t = "BLOG" THEN "blog"
    ELSE IF t = "Dev" THEN "dev"
    ELSE IF t = "Tag" THEN "tag"
    ELSE t

\* str.lower
Lower(s) == [i \in 1..Len(s) |-> LowerTok(s[i])]

\* sub in s
Contains(s, sub) ==
    \E i \in 1..(Len(s) - Len(sub) + 1) : SubSeq(s, i, i + Len(sub) - 1) = sub

\* s from position i to its end
From(s, i) == SubSeq(s, i, Len(s))

\* BLOG_DOMAINS_RE.search: (?:^|\.)(d1|d2|...)$
BlogDomainsSearch(host) ==
    \/ host \in BLOG_DOMAINS
    \/ \E i \in 1..Len(host) : host[i] = "." /\ From(host, i + 1) \in BLOG_DOMAINS

\* blog\d*\. matched from position j
BlogLabelAt(host, j) ==
    /\ j <= Len(host)
    /\ host[j] = "blog"
    /\ \E k \in (j + 1)..Len(host) :
          /\ host[k] = "."
          /\ \A m \in (j + 1)..(k - 1) : host[m] \in Digits

BlogSubdomainSearchUnanchored(host) ==
    \E j \in 1..Len(host) : BlogLabelAt(host, j)

\* BLOG_SUBDOMAIN_RE.search: (^|\.)blog\d*\.
BlogSubdomainSearch(host) ==
    \/ BlogLabelAt(host, 1)
    \/ \E i \in 1..Len(host) : host[i] = "." /\ BlogLabelAt(host, i + 1)

\* (/|$) matched at position k
SlashOrEnd(path, k) == k = Len(path) + 1 \/ (k <= Len(path) /\ path[k] = "/")

\* BLOG_PATH_RE.search: /(blog|blogs)(/|$)
BlogPathSearch(path) ==
    \E i \in 1..(Len(path) - 1) :
        /\ path[i] = "/"
        /\ path[i + 1] = "blog"
        /\ \/ SlashOrEnd(path, i + 2)
           \/ (i + 2 <= Len(path) /\ path[i + 2] = "s" /\ SlashOrEnd(path, i + 3))

\* any(x in path for x in ("/category/", "/tag/", "/author/"))
ListingPath(path) ==
    \E x \in {"category", "tag", "author"} : Contains(path, <<"/", x, "/">>)

\* is_blog_url; a url is given as urlparse splits it (host: the netloc's
\* hostname, path), malformed when urlparse raises on it
is_blog_url(url) ==
    IF url.malformed THEN FALSE
    ELSE LET host == Lower(url.host)
             path == Lower(url.path)
         IN IF BlogDomainsSearch(host) THEN TRUE
            ELSE IF BlogSubdomainSearch(host) THEN TRUE
            ELSE IF BlogPathSearch(path)
                 THEN IF ListingPath(path) THEN FALSE ELSE TRUE
            ELSE FALSE

Url(h, p) == [host |-> h, path |-> p, malformed |-> FALSE]
MalformedUrl == [host |-> <<>>, path |-> <<>>, malformed |-> TRUE]

HostTokens == {"blog", "7", ".", "x", "dev", "to"}
PathTokens == {"/", "blog", "s", "tag", "x"}

\* a path is empty or starts with "/"
PathsUpTo(n) == {<<>>} \cup {<<"/">> \o p : p \in SeqsUpTo(PathTokens, n - 1)}

SomePaths ==
    { <<>>, <<"/", "x">>, <<"/", "blog">>, <<"/", "blog", "/", "tag", "/">> }

SomeHosts ==
    { <<>>, <<"x", ".", "to">>, <<"dev", ".", "to">>, <<"blog", ".", "x">> }

\* the examples of the specification
Example1 == Url(<<"foo", ".", "blogspot", ".", "com">>, <<"/", "2020", "/", "x">>)
Example2 == Url(<<"example", ".", "com">>, <<"/", "blog", "/", "my-post">>)
Example3 == Url(<<"example", ".", "com">>, <<"/", "blog", "/", "category", "/", "news">>)
Example4 == Url(<<"example", ".", "com">>, <<"/", "shop", "/", "item">>)
Example5 == Url(<<"blog", "7", ".", "acme", ".", "io">>, <<"/">>)

OtherUrls ==
    { Example1, Example2, Example3, Example4, Example5, MalformedUrl,
      Url(<<"BLOG", ".", "x">>, <<>>),
      Url(<<"x", ".", "Dev", ".", "to">>, <<"/", "blog", "/", "tag", "/">>),
      Url(<<"x", ".", "com">>, <<"/", "BLOG", "/", "Tag", "/", "x">>),
      Url(<<"x", ".", "com">>, <<"/", "blog", "s", "/", "author", "/", "x">>),
      Url(<<"blog", ".", "sina", ".", "com", ".", "cn">>, <<"/", "x">>) }

ClassifyUrls(hl, pl) ==
    {Url(h, p) : h \in SeqsUpTo(HostTokens, hl), p \in SomePaths}
    \cup {Url(h, p) : h \in SomeHosts, p \in PathsUpTo(pl)}
    \cup OtherUrls

CIdle ==
    /\ curl = MalformedUrl
    /\ cdone = FALSE
    /\ cres = FALSE

CInit ==
    /\ curl \in ClassifyUrls(MaxHostLen, MaxPathLen)
    /\ cdone = FALSE
    /\ cres = FALSE

\* is_blog_url(curl) is called and returns
Classify ==
    /\ ~cdone
    /\ cdone' = TRUE
    /\ cres' = is_blog_url(curl)
    /\ curl' = curl
    /\ UNCHANGED <<fvars, xvars, svars, rvars, pvars>>

CNext == Classify

-----------------------------------------------------------------------------
(* RecordScanner *)

\* the tokens str.strip removes
Whitespace == {" ", "\n"}

\* str.strip
RECURSIVE Strip(_)
Strip(t) ==
    IF t = <<>> THEN t
    ELSE IF t[1] \in Whitespace THEN Strip(Tail(t))
    ELSE IF t[Len(t)] \in Whitespace THEN Strip(SubSeq(t, 1, Len(t) - 1))
    ELSE t

NormalizeKeepNewlines(t) == Strip(t)
\* text.strip().replace("\n", " ")
Normalize(t) == Replace(Strip(t), <<"\n">>, <<" ">>)

\* the url as a string is "https://" + host + path, or just path when the
\* host is empty: the empty string has neither
EmptyUrl == Url(<<>>, <<>>)
UrlIsEmpty(u) == ~u.malformed /\ u.host = <<>> /\ u.path = <<>>

\* what one decodable line holds:
\*   badjson     json.loads raises
\*   notdict     json.loads gives a value without .get
\*   record      an object; url and text as the two .get chains extract them
\*               ("" when the key is absent)
\*   unwritable  such an object whose row the csv file cannot encode, so that
\*               writer.writerow raises
Line(k, u, t) == [kind |-> k, url |-> u, text |-> t]
NoLine == Line("none", EmptyUrl, <<>>)

ScanUrls ==
    { EmptyUrl,
      Url(<<"x", ".", "com">>, <<"/", "blog", "/", "x">>),
      Url(<<"x", ".", "com">>, <<"/", "blog", "/", "tag", "/">>) }

ScanTexts ==
    { <<>>, <<"a">>, <<" ">>, <<" ", "a">>, <<"a", "\n", "a">> }

Lines ==
    { Line("badjson", EmptyUrl, <<>>), Line("notdict", EmptyUrl, <<>>) }
    \cup {Line("record", u, t) : u \in ScanUrls, t \in ScanTexts}
    \cup {Line("unwritable", u, <<"a">>) : u \in ScanUrls}

\* the row writer.writerow is given (its url and text fields)
Row(l) == [url |-> l.url, text |-> Normalize(l.text)]

TooShortOrEqual(t, m) == Len(t) <= m
\* len(text) < min_len
TooShort(t, m) == Len(t) < m

\* the three "continue" tests, in order: the record reaches writer.writerow
ReachesWriter(l, m) ==
    IF UrlIsEmpty(l.url) \/ l.text = <<>> THEN FALSE
    ELSE IF TooShort(l.text, m) THEN FALSE
    ELSE IF ~is_blog_url(l.url) THEN FALSE
    ELSE TRUE

\* the loop body ends in the except branch
Raises(l, m) ==
    \/ l.kind \in {"badjson", "notdict"}
    \/ l.kind = "unwritable" /\ ReachesWriter(l, m)

TotalAfterParsed(t, l) == IF l.kind \in {"badjson", "notdict"} THEN t ELSE t + 1
\* total += 1, the first statement of the loop body
TotalAfter(t, l) == t + 1

\* a file is named by the rank of its path among the n files found: the
\* orders in which rglob can yield them
RECURSIVE Perms(_)
Perms(S) ==
    IF S = {} THEN {<<>>}
    ELSE UNION {{<<x>> \o q : q \in Perms(S \ {x})} : x \in S}

Listings(n) == Perms(1..n)

\* s without its first occurrence of x
RECURSIVE Without(_, _)
Without(s, x) ==
    IF s = <<>> THEN s
    ELSE IF s[1] = x THEN Tail(s)
    ELSE <<s[1]>> \o Without(Tail(s), x)

\* s in ascending order
RECURSIVE Ascending(_)
Ascending(s) ==
    IF s = <<>> THEN s
    ELSE LET m == CHOOSE x \in {s[i] : i \in 1..Len(s)} :
                     \A i \in 1..Len(s) : x <= s[i]
         IN <<m>> \o Ascending(Without(s, m))

Unsorted(s) == s
\* sorted(...)
Sorted(s) == Ascending(s)

\* the number of lines of the files fl
RECURSIVE SumLens(_)
SumLens(fl) == IF fl = <<>> THEN 0 ELSE Len(fl[1]) + SumLens(Tail(fl))

SIdle ==
    /\ sfiles = <<>>
    /\ jsonl_files = <<>>
    /\ min_len = 0
    /\ spc = "start"
    /\ sfi = 0
    /\ spos = 0
    /\ sbuf = 0
    /\ stotal = 0
    /\ skept = 0
    /\ sline = NoLine
    /\ sraised = FALSE
    /\ out = [header |-> 0, rows |-> <<>>]
    /\ sret = <<>>
    /\ total_lines = 0
    /\ total_kept = 0

SInit ==
    /\ sfiles \in {fl \in SeqsUpTo(SeqsUpTo({"utf8", "invalid"}, MaxLines), MaxFiles) :
                      SumLens(fl) <= MaxLines}
    /\ jsonl_files = <<>>
    /\ min_len \in 0..MaxMinLen
    /\ spc = "start"
    /\ sfi = 0
    /\ spos = 0
    /\ sbuf = 0
    /\ stotal = 0
    /\ skept = 0
    /\ sline = NoLine
    /\ sraised = FALSE
    /\ out = [header |-> 0, rows |-> <<>>]
    /\ sret = <<>>
    /\ total_lines = 0
    /\ total_kept = 0

\* main up to the file loop: the files are gathered, rglob listing them in the
\* order ls, and sorted; no file found, or the output is opened and the header
\* written
MainStart(ls) ==
    /\ spc = "start"
    /\ jsonl_files' = Sorted(ls)
    /\ IF Sorted(ls) = <<>>
       THEN /\ spc' = "nofiles"
            /\ out' = out
       ELSE /\ spc' = "loop"
            /\ out' = [out EXCEPT !.header = out.header + 1]
    /\ UNCHANGED <<sfiles, min_len, sfi, spos, sbuf, stotal, skept, sline, sraised,
                   sret, total_lines, total_kept>>
    /\ UNCHANGED <<fvars, xvars, cvars, rvars, pvars>>

\* the loop of main calls parse_jsonl_to_csv on the next file
FileStart ==
    /\ spc = "loop"
    /\ sfi < Len(jsonl_files)
    /\ sfi' = sfi + 1
    /\ spc' = "scan"
    /\ spos' = 0
    /\ sbuf' = 0
    /\ stotal' = 0
    /\ skept' = 0
    /\ sret' = Append(sret, [total |-> 0, kept |-> 0, rows |-> 0, returned |-> FALSE])
    /\ UNCHANGED <<sfiles, jsonl_files, min_len, sline, sraised, out, total_lines,
                   total_kept>>
    /\ UNCHANGED <<fvars, xvars, cvars, rvars, pvars>>

\* the text reader of "for line in fin" fills its buffer with the next k lines
\* and decodes them as one chunk: UnicodeDecodeError leaves the loop, the
\* function and main
ReadChunk(k) ==
    /\ spc = "scan"
    /\ sbuf = 0
    /\ spos + k <= Len(sfiles[jsonl_files[sfi]])
    /\ IF \E i \in (spos + 1)..(spos + k) : sfiles[jsonl_files[sfi]][i] = "invalid"
       THEN /\ spc' = "crashed"
            /\ sbuf' = 0
       ELSE /\ spc' = "scan"
            /\ sbuf' = k
    /\ UNCHANGED <<sfiles, jsonl_files, min_len, sfi, spos, stotal, skept, sline,
                   sraised, out, sret, total_lines, total_kept>>
    /\ UNCHANGED <<fvars, xvars, cvars, rvars, pvars>>

\* one run of the loop body, on the line l
ScanLine(l) ==
    /\ spc = "scan"
    /\ sbuf > 0
    /\ sbuf' = sbuf - 1
    /\ spos' = spos + 1
    /\ stotal' = TotalAfter(stotal, l)
    /\ sline' = l
    /\ sraised' = Raises(l, min_len)
    /\ IF l.kind \in {"badjson", "notdict"}
       THEN UNCHANGED <<skept, out, sret>>
       ELSE IF ~ReachesWriter(l, min_len)
       THEN UNCHANGED <<skept, out, sret>>
       ELSE IF l.kind = "unwritable"
       THEN UNCHANGED <<skept, out, sret>>
       ELSE /\ out' = [out EXCEPT !.rows = Append(out.rows, Row(l))]
            /\ skept' = skept + 1
            /\ sret' = [sret EXCEPT ![sfi].rows = sret[sfi].rows + 1]
    /\ UNCHANGED <<sfiles, jsonl_files, min_len, spc, sfi, total_lines, total_kept>>
    /\ UNCHANGED <<fvars, xvars, cvars, rvars, pvars>>

\* the iterator is exhausted: parse_jsonl_to_csv returns (total, kept) and
\* main adds them to its counts
FileEnd ==
    /\ spc = "scan"
    /\ sbuf = 0
    /\ spos = Len(sfiles[jsonl_files[sfi]])
    /\ sret' = [sret EXCEPT ![sfi] = [total |-> stotal, kept |-> skept,
                                      rows |-> sret[sfi].rows, returned |-> TRUE]]
    /\ total_lines' = total_lines + stotal
    /\ total_kept' = total_kept + skept
    /\ spc' = "loop"
    /\ UNCHANGED <<sfiles, jsonl_files, min_len, sfi, spos, sbuf, stotal, skept, sline,
                   sraised, out>>
    /\ UNCHANGED <<fvars, xvars, cvars, rvars, pvars>>

\* the loop of main is over: the summary is logged
MainEnd ==
    /\ spc = "loop"
    /\ sfi = Len(jsonl_files)
    /\ spc' = "done"
    /\ UNCHANGED <<sfiles, jsonl_files, min_len, sfi, spos, sbuf, stotal, skept, sline, sraised,
                   out, sret, total_lines, total_kept>>
    /\ UNCHANGED <<fvars, xvars, cvars, rvars, pvars>>

\* the exit status of parse_blogs.py: 0 when main returns, be it at "no JSONL
\* files found" or after the loop; 1 when an exception leaves main; -1 while
\* it runs
ScanExitCode ==
    IF spc \in {"nofiles", "done"} THEN 0
    ELSE IF spc = "crashed" THEN 1
    ELSE -1

SNext ==
    \/ \E ls \in Listings(Len(sfiles)) : MainStart(ls)
    \/ FileStart
    \/ \E k \in 1..MaxLines : ReadChunk(k)
    \/ \E l \in Lines : ScanLine(l)
    \/ FileEnd
    \/ MainEnd

-----------------------------------------------------------------------------
(* Worker pools: main of download.py and main of unzip.py *)

\* the urls a urls file can list, in file order
RunUrls ==
    << [host |-> <<"h">>, path |-> <<"/", "d", "/", "a">>],
       [host |-> <<"h">>, path |-> <<"/", "e", "/", "a">>],
       [host |-> <<"h">>, path |-> <<"/", "b">>] >>

\* the sequences got from s by dropping elements
RECURSIVE SubSeqsOf(_)
SubSeqsOf(s) ==
    IF s = <<>> THEN {<<>>}
    ELSE SubSeqsOf(Tail(s)) \cup {<<s[1]>> \o r : r \in SubSeqsOf(Tail(s))}

\* what load_urls can return
UrlLists == {l \in SubSeqsOf(RunUrls) : Len(l) <= MaxItems}

RunNames == {safe_filename(RunUrls[i]) : i \in 1..Len(RunUrls)}
RunBodies == {<<>>, <<1>>}
\* the retry_limit values of the configuration of a run
RunRetries == {0, 1, 2}

\* the output directory download.py is started on: empty, or holding files
\* of an earlier run
FetchOutDirs ==
    {d \in [RunNames -> {NoFile, File(<<1>>)}] :
        \A n \in RunNames : d[n].exists => n = <<"b">>}

\* the directories unzip.py is started on
ExtractInputDirs ==
    {d \in [SrcNames -> {NoSrc, NotAnArchive, Compressed(<<1>>, TRUE),
                         Compressed(<<1>>, FALSE)}] :
        \A n \in SrcNames : IF UnknownExt(n) THEN d[n] = NotAnArchive
                            ELSE d[n] # NotAnArchive}
ExtractOutDirs ==
    { [n \in DstNames |-> NoFile],
      [n \in DstNames |-> IF n = <<"b", ".jsonl">> THEN File(<<1>>) ELSE NoFile] }

\* [p for p in input_dir.iterdir() if p.is_file() and p.suffix in {".zst", ".gz"}]
CompressedFiles(dir) ==
    {n \in DOMAIN dir : dir[n].exists /\ Suffix(n) \in {".zst", ".gz"}}

\* a call submitted to the executor and not yet taken by a worker
Queued ==
    [pc |-> "queued", at |-> "none", pos |-> 0, buf |-> <<>>, attempt |-> 0,
     outcome |-> "None", disp |-> 0, outs |-> 0]
\* a worker thread takes the call from the work queue and calls the function
Dispatched(t) == [t EXCEPT !.pc = "call", !.disp = t.disp + 1]
\* the call, its file closed, logs its outcome
Logged(t, o) ==
    [t EXCEPT !.pos = 0, !.buf = <<>>, !.outcome = o, !.outs = t.outs + 1]
\* the call returns
Return(t) == [t EXCEPT !.pc = "returned", !.at = "none"]
\* the call logs its outcome and returns
Returned(t, o) == Return(Logged(t, o))

\* the calls a worker thread is running
InFlight == {i \in DOMAIN task : task[i].pc \in {"call", "try", "decompress"}}

WorkerAlwaysFree == TRUE
\* the executor has an idle thread, or fewer than max_workers threads
WorkerFree == Cardinality(InFlight) < workers

\* the work queue of the executor is first in, first out
NextQueued(i) ==
    task[i].pc = "queued" /\ \A j \in 1..(i - 1) : task[j].pc # "queued"

AnyReturned == \E i \in DOMAIN task : task[i].pc = "returned"
\* list(ex.map(...)) and the end of the with block wait for every call
AllReturned == \A i \in DOMAIN task : task[i].pc = "returned"

ExitOneIfFailed == IF \E i \in DOMAIN task : task[i].outcome = "Failed" THEN 1 ELSE 0
\* main returns after the pool: the interpreter exits with status 0
ExitAfterPool == 0

\* f.write / dst.write through the file object of one call: the chunks go to
\* the position pos of that file object, whatever the file holds by now (a
\* file cut short by another open is filled up with a hole of zeros)
WriteAt(f, pos, chunks) ==
    LET d == f.data
        head == IF pos <= Len(d) THEN SubSeq(d, 1, pos)
                ELSE d \o [k \in 1..(pos - Len(d)) |-> 0]
        tail == SubSeq(d, pos + Len(chunks) + 1, Len(d))
    IN File(head \o chunks \o tail)

\* what a write does with a chunk, by its size and the room left in the
\* buffer of the file object: the chunk is kept in the buffer; or it does
\* not fit beside what the buffer holds, the buffer is written out and the
\* chunk kept; or it is no smaller than the buffer, and the buffer and the
\* chunk are written out
WriteModes(t) ==
    {"buffered", "through"} \cup (IF t.buf # <<>> THEN {"flush"} ELSE {})

\* the buffer of a file object at position pos is written out: its chunks go
\* to the file where they belong, and nothing is written when it is empty
FlushBuf(f, pos, buf) ==
    IF buf = <<>> THEN f ELSE WriteAt(f, pos - Len(buf), buf)

\* the file after f.write(c) through the file object of call t
FileAfterWrite(f, t, c, how) ==
    IF how = "buffered" THEN f
    ELSE IF how = "flush" THEN FlushBuf(f, t.pos, t.buf)
    ELSE WriteAt(f, t.pos - Len(t.buf), t.buf \o <<c>>)

\* call t after f.write(c)
AfterWrite(t, c, how) ==
    [t EXCEPT !.pos = t.pos + 1,
              !.buf = IF how = "buffered" THEN t.buf \o <<c>>
                      ELSE IF how = "flush" THEN <<c>>
                      ELSE <<>>]

\* the response of the server goes on with chunk c after pos chunks
NextChunk(pos, c) == \E b \in RunBodies : Len(b) > pos /\ b[pos + 1] = c

\* the for loop of download_one: the first iteration, or none when retry < 1
EnterLoop(t) ==
    IF 1 \in RetryRange(rretry)
    THEN [t EXCEPT !.pc = "try", !.at = "get", !.attempt = 1]
    ELSE Returned(t, "Failed")

\* the loop of download_one after an attempt raised and the sleep is over
AfterFailedAttempt(t) ==
    IF t.attempt + 1 \in RetryRange(rretry)
    THEN [t EXCEPT !.at = "get", !.attempt = t.attempt + 1]
    ELSE Returned(t, "Failed")

\* what the decompressor of file n yields: its blocks, and whether it raises
\* after them
Yield(n) ==
    IF Suffix(n) = ".zst" THEN decompress_zst(input_dir[n])
    ELSE decompress_gz(input_dir[n])

RIdle ==
    /\ stage = "none"
    /\ out_dir = <<>>
    /\ input_dir = <<>>
    /\ items = <<>>
    /\ workers = 0
    /\ rretry = 0
    /\ delete_src = FALSE
    /\ rpc = "idle"
    /\ exit_code = -1
    /\ task = <<>>

RInit ==
    /\ stage \in {"fetch", "extract"}
    /\ out_dir \in IF stage = "fetch" THEN FetchOutDirs ELSE ExtractOutDirs
    /\ input_dir \in IF stage = "fetch" THEN {<<>>} ELSE ExtractInputDirs
    /\ items = <<>>
    /\ workers \in 1..MaxWorkers
    /\ rretry \in IF stage = "fetch" THEN RunRetries ELSE {0}
    /\ delete_src \in IF stage = "fetch" THEN {FALSE} ELSE BOOLEAN
    /\ rpc = "start"
    /\ exit_code = -1
    /\ task = <<>>

\* download.py main up to the pool: the urls are loaded; none: error, exit(1)
DownloadMain(us) ==
    /\ stage = "fetch"
    /\ rpc = "start"
    /\ items' = us
    /\ IF us = <<>>
       THEN /\ rpc' = "noitems"
            /\ exit_code' = 1
            /\ task' = <<>>
       ELSE /\ rpc' = "pool"
            /\ exit_code' = exit_code
            /\ task' = [i \in 1..Len(us) |-> Queued]
    /\ UNCHANGED <<stage, out_dir, input_dir, workers, rretry, delete_src>>
    /\ UNCHANGED <<fvars, xvars, cvars, svars, pvars>>

\* a worker thread takes the next call of the queue: download_one(items[i], ...)
\* or decompress_file(items[i], ...) is entered
WorkerTake(i) ==
    /\ rpc = "pool"
    /\ NextQueued(i)
    /\ WorkerFree
    /\ task' = [task EXCEPT ![i] = Dispatched(task[i])]
    /\ UNCHANGED <<stage, out_dir, input_dir, items, workers, rretry, delete_src,
                   rpc, exit_code>>
    /\ UNCHANGED <<fvars, xvars, cvars, svars, pvars>>

\* call i of download_one tests its destination: "skip existing", or the loop
\* is entered and the request of the first attempt is sent
DlWorkerCheck(i) ==
    /\ stage = "fetch"
    /\ task[i].pc = "call"
    /\ task' = [task EXCEPT ![i] =
                  IF SkipExisting(out_dir, safe_filename(items[i]))
                  THEN Returned(task[i], "Skipped")
                  ELSE EnterLoop(task[i])]
    /\ UNCHANGED <<stage, out_dir, input_dir, items, workers, rretry, delete_src,
                   rpc, exit_code>>
    /\ UNCHANGED <<fvars, xvars, cvars, svars, pvars>>

\* the response of an attempt of call i has come and its status is good:
\* open(dst, "wb")
DlWorkerOpen(i) ==
    /\ stage = "fetch"
    /\ task[i].pc = "try" /\ task[i].at = "get"
    /\ out_dir' = [out_dir EXCEPT ![safe_filename(items[i])] =
                      OpenWb(out_dir[safe_filename(items[i])])]
    /\ task' = [task EXCEPT ![i] = [@ EXCEPT !.at = "write", !.pos = 0]]
    /\ UNCHANGED <<stage, input_dir, items, workers, rretry, delete_src, rpc, exit_code>>
    /\ UNCHANGED <<fvars, xvars, cvars, svars, pvars>>

\* r.iter_content hands call i the next chunk c: f.write(c)
DlWorkerChunk(i, c, how) ==
    /\ stage = "fetch"
    /\ task[i].pc = "try" /\ task[i].at = "write"
    /\ NextChunk(task[i].pos, c)
    /\ out_dir' = [out_dir EXCEPT ![safe_filename(items[i])] =
                      FileAfterWrite(out_dir[safe_filename(items[i])], task[i], c, how)]
    /\ task' = [task EXCEPT ![i] = AfterWrite(task[i], c, how)]
    /\ UNCHANGED <<stage, input_dir, items, workers, rretry, delete_src, rpc, exit_code>>
    /\ UNCHANGED <<fvars, xvars, cvars, svars, pvars>>

\* the body of call i has ended: the file is closed, which writes out the
\* buffer; "done", return
DlWorkerOk(i) ==
    /\ stage = "fetch"
    /\ task[i].pc = "try" /\ task[i].at = "write"
    /\ \E b \in RunBodies : Len(b) = task[i].pos
    /\ out_dir' = [out_dir EXCEPT ![safe_filename(items[i])] =
                      FlushBuf(out_dir[safe_filename(items[i])], task[i].pos,
                               task[i].buf)]
    /\ task' = [task EXCEPT ![i] = Returned(task[i], "Completed")]
    /\ UNCHANGED <<stage, input_dir, items, workers, rretry, delete_src, rpc, exit_code>>
    /\ UNCHANGED <<fvars, xvars, cvars, svars, pvars>>

\* an attempt of call i raises before open(dst, "wb"): the warning, and the
\* sleep begins
DlWorkerFailEarly(i) ==
    /\ stage = "fetch"
    /\ task[i].pc = "try" /\ task[i].at = "get"
    /\ task' = [task EXCEPT ![i] = [@ EXCEPT !.at = "sleep"]]
    /\ UNCHANGED <<stage, out_dir, input_dir, items, workers, rretry, delete_src,
                   rpc, exit_code>>
    /\ UNCHANGED <<fvars, xvars, cvars, svars, pvars>>

\* an attempt of call i raises after open(dst, "wb"), the connection breaks:
\* the file is closed, which writes out the buffer; the warning, and the
\* sleep begins
DlWorkerFailPartial(i) ==
    /\ stage = "fetch"
    /\ task[i].pc = "try" /\ task[i].at = "write"
    /\ out_dir' = [out_dir EXCEPT ![safe_filename(items[i])] =
                      FlushBuf(out_dir[safe_filename(items[i])], task[i].pos,
                               task[i].buf)]
    /\ task' = [task EXCEPT ![i] = [@ EXCEPT !.at = "sleep", !.pos = 0, !.buf = <<>>]]
    /\ UNCHANGED <<stage, input_dir, items, workers, rretry, delete_src, rpc, exit_code>>
    /\ UNCHANGED <<fvars, xvars, cvars, svars, pvars>>

\* time.sleep(2 * attempt) of call i is over: the next iteration, or "failed"
DlWorkerSleep(i) ==
    /\ stage = "fetch"
    /\ task[i].pc = "try" /\ task[i].at = "sleep"
    /\ task' = [task EXCEPT ![i] = AfterFailedAttempt(task[i])]
    /\ UNCHANGED <<stage, out_dir, input_dir, items, workers, rretry, delete_src,
                   rpc, exit_code>>
    /\ UNCHANGED <<fvars, xvars, cvars, svars, pvars>>

\* download.py main after the pool: "download complete", main returns
DownloadMainEnd ==
    /\ stage = "fetch"
    /\ rpc = "pool"
    /\ AllReturned
    /\ rpc' = "done"
    /\ exit_code' = ExitAfterPool
    /\ UNCHANGED <<stage, out_dir, input_dir, items, workers, rretry, delete_src, task>>
    /\ UNCHANGED <<fvars, xvars, cvars, svars, pvars>>

\* unzip.py main up to the pool: iterdir yields the compressed files in the
\* order ls; none: error, return
UnzipMain(ls) ==
    /\ stage = "extract"
    /\ rpc = "start"
    /\ items' = ls
    /\ IF ls = <<>>
       THEN /\ rpc' = "noitems"
            /\ exit_code' = 0
            /\ task' = <<>>
       ELSE /\ rpc' = "pool"
            /\ exit_code' = exit_code
            /\ task' = [i \in 1..Len(ls) |-> Queued]
    /\ UNCHANGED <<stage, out_dir, input_dir, workers, rretry, delete_src>>
    /\ UNCHANGED <<fvars, xvars, cvars, svars, pvars>>

\* call i of decompress_file up to the try block: the three skips, or the
\* try block is entered
XWorkerCheck(i) ==
    /\ stage = "extract"
    /\ task[i].pc = "call"
    /\ task' = [task EXCEPT ![i] =
                  IF UnknownExt(items[i]) THEN Returned(task[i], "Skipped")
                  ELSE IF LooksDecompressed(items[i]) THEN Returned(task[i], "Skipped")
                  ELSE IF DstExists(out_dir, DstName(items[i]))
                  THEN Returned(task[i], "Skipped")
                  ELSE [task[i] EXCEPT !.pc = "decompress", !.at = "start"]]
    /\ UNCHANGED <<stage, out_dir, input_dir, items, workers, rretry, delete_src,
                   rpc, exit_code>>
    /\ UNCHANGED <<fvars, xvars, cvars, svars, pvars>>

\* the decompressor of call i opens its files: open(outp, "wb")
XWorkerOpen(i) ==
    /\ stage = "extract"
    /\ task[i].pc = "decompress" /\ task[i].at = "start"
    /\ out_dir' = [out_dir EXCEPT ![DstName(items[i])] =
                      OpenWb(out_dir[DstName(items[i])])]
    /\ task' = [task EXCEPT ![i] = [@ EXCEPT !.at = "write", !.pos = 0]]
    /\ UNCHANGED <<stage, input_dir, items, workers, rretry, delete_src, rpc, exit_code>>
    /\ UNCHANGED <<fvars, xvars, cvars, svars, pvars>>

\* the decompressor of call i reads the next block: dst.write(block)
XWorkerBlock(i, how) ==
    /\ stage = "extract"
    /\ task[i].pc = "decompress" /\ task[i].at = "write"
    /\ task[i].pos < Len(Yield(items[i]).written.data)
    /\ LET block == Yield(items[i]).written.data[task[i].pos + 1]
       IN /\ out_dir' = [out_dir EXCEPT ![DstName(items[i])] =
                            FileAfterWrite(out_dir[DstName(items[i])], task[i],
                                           block, how)]
          /\ task' = [task EXCEPT ![i] = AfterWrite(task[i], block, how)]
    /\ UNCHANGED <<stage, input_dir, items, workers, rretry, delete_src, rpc, exit_code>>
    /\ UNCHANGED <<fvars, xvars, cvars, svars, pvars>>

\* the decompressor of call i is past its last block: its files are closed,
\* which writes out the buffer; it raised and the call logs "failed", or it
\* returned and the call logs "decompressed"; the call returns unless the
\* source is to be deleted
XWorkerEnd(i) ==
    /\ stage = "extract"
    /\ task[i].pc = "decompress" /\ task[i].at = "write"
    /\ task[i].pos = Len(Yield(items[i]).written.data)
    /\ out_dir' = [out_dir EXCEPT ![DstName(items[i])] =
                      FlushBuf(out_dir[DstName(items[i])], task[i].pos, task[i].buf)]
    /\ task' = [task EXCEPT ![i] =
                  IF Yield(items[i]).raised THEN Returned(task[i], "Failed")
                  ELSE IF UnlinkReached(delete_src, Yield(items[i]).raised)
                  THEN [Logged(task[i], "Completed") EXCEPT !.at = "unlink"]
                  ELSE Returned(task[i], "Completed")]
    /\ UNCHANGED <<stage, input_dir, items, workers, rretry, delete_src, rpc, exit_code>>
    /\ UNCHANGED <<fvars, xvars, cvars, svars, pvars>>

\* src.unlink() of call i, which may itself fail (unlinked = FALSE: the
\* warning "could not delete"); the call returns
XWorkerUnlink(i, unlinked) ==
    /\ stage = "extract"
    /\ task[i].pc = "decompress" /\ task[i].at = "unlink"
    /\ input_dir' = IF unlinked THEN [input_dir EXCEPT ![items[i]] = NoSrc]
                    ELSE input_dir
    /\ task' = [task EXCEPT ![i] = Return(task[i])]
    /\ UNCHANGED <<stage, out_dir, items, workers, rretry, delete_src, rpc, exit_code>>
    /\ UNCHANGED <<fvars, xvars, cvars, svars, pvars>>

\* unzip.py main after the pool: "extract complete", main returns
UnzipMainEnd ==
    /\ stage = "extract"
    /\ rpc = "pool"
    /\ AllReturned
    /\ rpc' = "done"
    /\ exit_code' = ExitAfterPool
    /\ UNCHANGED <<stage, out_dir, input_dir, items, workers, rretry, delete_src, task>>
    /\ UNCHANGED <<fvars, xvars, cvars, svars, pvars>>

RNext ==
    \/ \E us \in UrlLists : DownloadMain(us)
    \/ \E i \in DOMAIN task : WorkerTake(i)
    \/ \E i \in DOMAIN task : DlWorkerCheck(i)
    \/ \E i \in DOMAIN task : DlWorkerOpen(i)
    \/ \E i \in DOMAIN task, c \in Chunks :
          \E how \in WriteModes(task[i]) : DlWorkerChunk(i, c, how)
    \/ \E i \in DOMAIN task : DlWorkerOk(i)
    \/ \E i \in DOMAIN task : DlWorkerFailEarly(i)
    \/ \E i \in DOMAIN task : DlWorkerFailPartial(i)
    \/ \E i \in DOMAIN task : DlWorkerSleep(i)
    \/ DownloadMainEnd
    \/ \E ls \in Perms(CompressedFiles(input_dir)) : UnzipMain(ls)
    \/ \E i \in DOMAIN task : XWorkerCheck(i)
    \/ \E i \in DOMAIN task : XWorkerOpen(i)
    \/ \E i \in DOMAIN task :
          \E how \in WriteModes(task[i]) : XWorkerBlock(i, how)
    \/ \E i \in DOMAIN task : XWorkerEnd(i)
    \/ \E i \in DOMAIN task, unlinked \in BOOLEAN : XWorkerUnlink(i, unlinked)
    \/ UnzipMainEnd

-----------------------------------------------------------------------------
(* Runner: pipeline_runner.py *)

\* no download_timestamp handed over (yet)
NoVar == [timestamp |-> -1, suffix |-> ""]

PIdle ==
    /\ pstage = "none"
    /\ now = 0
    /\ ppc = "idle"
    /\ dl_ts = -1
    /\ ts = -1
    /\ dl_code = -1
    /\ passed = NoVar

\* --stage
Stages == {"download", "unzip", "both"}

\* stamp(): datetime.now().strftime("%Y%m%d_%H%M%S"), the clock cut to whole
\* seconds
stamp(t) == t \div TicksPerSecond

\* the value of f"{dl_ts}_download"
DownloadTimestamp(t) == [timestamp |-> t, suffix |-> "_download"]

PInit ==
    /\ pstage \in Stages
    /\ now \in 0..(TicksPerSecond - 1)
    /\ ppc = "start"
    /\ dl_ts = -1
    /\ ts = -1
    /\ dl_code = -1
    /\ passed = NoVar

\* time passes while the runner and its subprocesses run
PTick ==
    /\ ppc \notin {"done", "failed"}
    /\ now < MaxClock
    /\ now' = now + 1
    /\ UNCHANGED <<pstage, ppc, dl_ts, ts, dl_code, passed>>
    /\ UNCHANGED <<fvars, xvars, cvars, svars, rvars>>

\* dl_ts = stamp(), then the first "if args.stage in"
RunnerStart ==
    /\ ppc = "start"
    /\ dl_ts' = stamp(now)
    /\ ppc' = IF pstage \in {"download", "both"} THEN "download" ELSE "unzip"
    /\ UNCHANGED <<pstage, now, ts, dl_code, passed>>
    /\ UNCHANGED <<fvars, xvars, cvars, svars, rvars>>

\* the download process, started by check_call, reaches ts = stamp() in its
\* main and names its output directory after it
DownloadStamp ==
    /\ ppc = "download"
    /\ ts' = stamp(now)
    /\ ppc' = "downloading"
    /\ UNCHANGED <<pstage, now, dl_ts, dl_code, passed>>
    /\ UNCHANGED <<fvars, xvars, cvars, svars, rvars>>

\* the download process exits with the status code; check_call returns when it
\* is 0 and raises CalledProcessError otherwise, which ends the runner
DownloadExit(code) ==
    /\ ppc \in {"download", "downloading"}
    /\ ppc = "download" => code # 0
    /\ dl_code' = code
    /\ ppc' = IF code # 0 THEN "failed"
              ELSE IF pstage \in {"unzip", "both"} THEN "unzip"
              ELSE "done"
    /\ UNCHANGED <<pstage, now, dl_ts, ts, passed>>
    /\ UNCHANGED <<fvars, xvars, cvars, svars, rvars>>

\* the second check_call starts unzip.py with --vars download_timestamp=...
UnzipStart ==
    /\ ppc = "unzip"
    /\ passed' = DownloadTimestamp(dl_ts)
    /\ ppc' = "unzipping"
    /\ UNCHANGED <<pstage, now, dl_ts, ts, dl_code>>
    /\ UNCHANGED <<fvars, xvars, cvars, svars, rvars>>

\* the unzip process exits with the status code
UnzipExit(code) ==
    /\ ppc = "unzipping"
    /\ ppc' = IF code # 0 THEN "failed" ELSE "done"
    /\ UNCHANGED <<pstage, now, dl_ts, ts, dl_code, passed>>
    /\ UNCHANGED <<fvars, xvars, cvars, svars, rvars>>

PNext ==
    \/ PTick
    \/ RunnerStart
    \/ DownloadStamp
    \/ \E code \in {0, 1} : DownloadExit(code)
    \/ UnzipStart
    \/ \E code \in {0, 1} : UnzipExit(code)

-----------------------------------------------------------------------------
(* Specifications: one per stage component, the others idle *)

InitFetch == FInit /\ XIdle /\ CIdle /\ SIdle /\ RIdle /\ PIdle
SpecFetch == InitFetch /\ [][FNext]_vars

InitExtract == XInit /\ FIdle /\ CIdle /\ SIdle /\ RIdle /\ PIdle
SpecExtract == InitExtract /\ [][XNext]_vars

InitClassify == CInit /\ FIdle /\ XIdle /\ SIdle /\ RIdle /\ PIdle
SpecClassify == InitClassify /\ [][CNext]_vars

InitScan == SInit /\ FIdle /\ XIdle /\ CIdle /\ RIdle /\ PIdle
SpecScan == InitScan /\ [][SNext]_vars

InitRun == RInit /\ FIdle /\ XIdle /\ CIdle /\ SIdle /\ PIdle
SpecRun == InitRun /\ [][RNext]_vars

\* the same run under fair scheduling: the operating system keeps scheduling
\* main and the worker threads, every request ends (requests.get has
\* timeout=60) and every decompression ends, so a step that can be taken is
\* eventually taken
SpecRunFair == InitRun /\ [][RNext]_vars /\ WF_vars(RNext)

InitPipeline == PInit /\ FIdle /\ XIdle /\ CIdle /\ SIdle /\ RIdle
SpecPipeline == InitPipeline /\ [][PNext]_vars

-----------------------------------------------------------------------------
(* Fetcher properties *)

\* a download_one call has returned
DlReturned == fpc = "idle" /\ foutcome # "None"

\* C1: with retry >= 1, a call that was not skipped and whose every attempt
\* failed issued exactly retry requests and reported Failed; no call ever
\* issues more than retry requests.
C1_RetryExhaustion ==
    /\ retry >= 1 => nreq <= retry
    /\ (DlReturned /\ retry >= 1 /\ foutcome # "Skipped" /\ nfail = nreq)
          => (foutcome = "Failed" /\ nreq = retry)

C1_Witness ==
    DlReturned /\ foutcome = "Failed" /\ retry >= 2 /\ nreq = retry /\ nfail = retry

\* C2: when Failed is reported after retry >= 1 failed attempts, the delays
\* slept add up to 2 * (1 + ... + (retry - 1)): none after the final attempt.
C2_NoDelayAfterFinalAttempt ==
    (DlReturned /\ foutcome = "Failed" /\ retry >= 1)
        => slept = 2 * SumTo(retry - 1)

DlStartStep(u) == \E r \in RetryValues : DlStart(u, r)

\* the second run of u is Skipped, asks the network nothing and leaves the
\* file as the first run wrote it
RerunSkips(u) ==
    /\ foutcome' = "Skipped"
    /\ nreq' = 0
    /\ fs' = fs
    /\ fs[safe_filename(u)] = File(flast[u].body)

\* C3 as stated: whatever the body, a call of download_one on a url whose last
\* call reported Completed is Skipped, issues no request and leaves the file
\* as that call wrote it.
C3_RerunSkipsAnyBody ==
    [][\A u \in FetchUrls :
         (DlStartStep(u) /\ flast[u].outcome = "Completed") => RerunSkips(u)]_vars

\* C3 amended: the same for every url whose Completed call wrote a non-empty
\* body.
C3_RerunSkipsNonEmptyBody ==
    [][\A u \in FetchUrls :
         (DlStartStep(u) /\ flast[u].outcome = "Completed" /\ flast[u].body # <<>>)
            => RerunSkips(u)]_vars

C3_Witness ==
    /\ DlReturned /\ foutcome = "Skipped" /\ nreq = 0
    /\ flast[furl].outcome = "Skipped" /\ flast[furl].rerun
    /\ flast[furl].body # <<>>
    /\ fs[safe_filename(furl)] = File(flast[furl].body)

\* C18: a call of download_one on a url whose last call reported Failed and
\* left a partly written, non-empty destination file, the file being still as
\* that call left it, is not Skipped: with retry >= 1 it issues a request.
C18_RerunAfterPartialRetries ==
    [][\A u \in FetchUrls :
         (/\ DlStartStep(u)
          /\ flast[u].outcome = "Failed" /\ flast[u].body # <<>>
          /\ fs[safe_filename(u)] = File(flast[u].body))
            => /\ foutcome' # "Skipped"
               /\ retry' >= 1 => fpc' = "try"]_vars

\* C21: when a call of download_one has reported Completed, the destination
\* file holds the body its successful attempt received and nothing else,
\* however many attempts of the call failed before and whatever they wrote.
C21_CompletedFileIsBody ==
    (DlReturned /\ foutcome = "Completed")
        => /\ flast[furl].outcome = "Completed"
           /\ fs[safe_filename(furl)] = File(flast[furl].body)

\* a Completed call an earlier attempt of which failed after writing part of
\* a body
C21_Witness ==
    /\ DlReturned /\ foutcome = "Completed" /\ nfail >= 1
    /\ fpartial /\ flast[furl].body # <<>>
    /\ fs[safe_filename(furl)] = File(flast[furl].body)

-----------------------------------------------------------------------------
(* Extractor properties *)

ExReturned == xpc = "idle" /\ xoutcome # "None"

ExCallStep(n) == \E del \in BOOLEAN : ExCall(n, del)

\* C4: a call of decompress_file on a source whose last call reported
\* Completed (the source still being there, as with deleteSource unset) is
\* Skipped as already existing, runs no decompressor and changes neither the
\* destination directory nor the source directory.
C4_ExtractRerunSkips ==
    [][\A n \in SrcNames :
         (ExCallStep(n) /\ xlast[n].outcome = "Completed")
            => /\ xoutcome' = "Skipped" /\ xreason' = "existing"
               /\ xpc' = "idle" /\ ninvoke' = 0
               /\ dstdir' = dstdir /\ srcdir' = srcdir]_vars

C4_Witness ==
    /\ ExReturned /\ xoutcome = "Skipped" /\ xreason = "existing"
    /\ xlast[xsrc].rerun /\ ~xdel /\ ninvoke = 0
    /\ srcdir[xsrc].exists /\ srcdir[xsrc].data # <<>>
    /\ dstdir[DstName(xsrc)] = File(srcdir[xsrc].data)

\* C5: a call of decompress_file never runs the decompressor more than once,
\* and once it has logged Failed it has returned, after exactly one run.
C5_ExtractNeverRetried ==
    /\ ninvoke <= 1
    /\ xoutcome = "Failed" => (xpc = "idle" /\ ninvoke = 1)

C5_Witness ==
    ExReturned /\ xoutcome = "Failed" /\ ninvoke = 1 /\ ~srcdir[xsrc].ok

\* C6: a source file is never modified, and it disappears only in the step
\* of a call on it with delete_src set whose decompression completed.
C6_SourceRemovedOnlyOnSuccess ==
    [][\A n \in SrcNames :
         srcdir'[n] # srcdir[n]
            => /\ ~srcdir'[n].exists
               /\ n = xsrc /\ xdel /\ xpc = "decompress"
               /\ xoutcome' = "Completed" /\ srcdir[n].ok]_vars

C6_Witness ==
    /\ ExReturned /\ xoutcome = "Completed" /\ xdel /\ ~srcdir[xsrc].exists
    /\ \E n \in SrcNames : xlast[n].outcome = "Failed" /\ srcdir[n].exists

\* C22: a call of decompress_file is Skipped as already existing only when
\* the destination holds the whole decompressed content of its source; in
\* particular not when the last call on that source reported Failed.
C22_SkippedMeansComplete ==
    [][\A n \in SrcNames :
         (ExCallStep(n) /\ xoutcome' = "Skipped" /\ xreason' = "existing")
            => /\ xlast[n].outcome # "Failed"
               /\ srcdir[n].ok
               /\ dstdir[DstName(n)] = File(srcdir[n].data)]_vars

-----------------------------------------------------------------------------
(* UrlClassifier properties *)

\* s cut at every token sep: the sequence of the pieces between them
RECURSIVE Split(_, _)
Split(s, sep) ==
    LET I == {i \in 1..Len(s) : s[i] = sep}
    IN IF I = {} THEN <<s>>
       ELSE LET i == CHOOSE k \in I : \A j \in I : k <= j
            IN <<SubSeq(s, 1, i - 1)>> \o Split(From(s, i + 1), sep)

\* rule 2: the host is an allowlisted domain or ends with "." + that domain
RefDomain(host) ==
    \E d \in BLOG_DOMAINS : host = d \/ EndsWith(host, <<".">> \o d)

\* rule 3: a label "blog" + digits that a "." follows, i.e. not the last one
RefBlogLabel(host) ==
    LET labels == Split(host, ".")
    IN \E k \in 1..(Len(labels) - 1) :
          /\ Len(labels[k]) >= 1
          /\ labels[k][1] = "blog"
          /\ \A m \in 2..Len(labels[k]) : labels[k][m] \in Digits

\* rule 4: a path segment "blog" or "blogs"
RefBlogSegment(path) ==
    LET segs == Split(path, "/")
    IN \E k \in 2..Len(segs) : segs[k] \in {<<"blog">>, <<"blog", "s">>}

RefListing(path) ==
    \/ Contains(path, <<"/", "category", "/">>)
    \/ Contains(path, <<"/", "tag", "/">>)
    \/ Contains(path, <<"/", "author", "/">>)

\* the ordered first-match-wins rule
RefIsBlog(url) ==
    LET host == Lower(url.host)
        path == Lower(url.path)
    IN IF RefDomain(host) THEN TRUE
       ELSE IF RefBlogLabel(host) THEN TRUE
       ELSE IF RefBlogSegment(path) THEN ~RefListing(path)
       ELSE FALSE

\* C7: is_blog_url returns what the ordered reference rule gives, for every
\* url; a host match is never overridden by the path; the five examples of
\* the specification give true, true, false, false, true.
C7_ClassifierMatchesRule ==
    /\ cdone => cres = RefIsBlog(curl)
    /\ (cdone /\ (RefDomain(Lower(curl.host)) \/ RefBlogLabel(Lower(curl.host))))
          => cres
    /\ (cdone /\ curl = Example1) => cres
    /\ (cdone /\ curl = Example2) => cres
    /\ (cdone /\ curl = Example3) => ~cres
    /\ (cdone /\ curl = Example4) => ~cres
    /\ (cdone /\ curl = Example5) => cres

\* a listing path under a blog segment, on a host no rule matches
C7_Witness ==
    /\ cdone /\ ~cres
    /\ RefBlogSegment(Lower(curl.path)) /\ RefListing(Lower(curl.path))
    /\ Len(curl.host) > 0

-----------------------------------------------------------------------------
(* RecordScanner properties *)

\* the keep rule of the specification
KeepRule(l, m) ==
    /\ ~UrlIsEmpty(l.url)
    /\ l.text # <<>>
    /\ Len(l.text) >= m
    /\ is_blog_url(l.url)

\* C8: a line whose loop body ended without an exception is forwarded (its row
\* appended to the output, kept incremented) if and only if the keep rule
\* holds of it; a line whose text is shorter than min_len, or whose url is
\* empty, is never forwarded.
C8_KeptIffKeepRule ==
    [][spos' = spos + 1 =>
         /\ ~sraised' =>
              IF KeepRule(sline', min_len)
              THEN out'.rows = Append(out.rows, Row(sline')) /\ skept' = skept + 1
              ELSE out' = out /\ skept' = skept
         /\ (Len(sline'.text) < min_len \/ UrlIsEmpty(sline'.url)) => out' = out]_vars

C8_Witness ==
    /\ spc = "scan" /\ sline.kind = "record" /\ ~sraised
    /\ min_len >= 1 /\ Len(sline.text) = min_len
    /\ skept >= 1 /\ out.rows # <<>>
    /\ out.rows[Len(out.rows)] = Row(sline)

\* C9: no line failure aborts the scan, and every scan that ended has read
\* every line of its file.
C9_FailedLineNeverAborts ==
    /\ spc # "crashed"
    /\ \A i \in 1..Len(sret) :
          sret[i].returned => sret[i].total = Len(sfiles[i])
    /\ spc = "done" => Len(sret) = Len(sfiles)

RECURSIVE SumTotals(_)
SumTotals(r) == IF r = <<>> THEN 0 ELSE r[1].total + SumTotals(Tail(r))

RECURSIVE SumKept(_)
SumKept(r) == IF r = <<>> THEN 0 ELSE r[1].kept + SumKept(Tail(r))

\* C10: the counts a scan returns are the number of lines of its file and the
\* number of rows written during it, so kept <= total; at the end of the run
\* main's totals are the sums of the returned counts, i.e. all the lines of
\* all the files and all the rows of the output.
C10_CountsExact ==
    /\ \A i \in 1..Len(sret) :
          sret[i].returned =>
             /\ sret[i].total = Len(sfiles[i])
             /\ sret[i].kept = sret[i].rows
             /\ sret[i].kept <= sret[i].total
    /\ spc = "done" =>
          /\ total_lines = SumTotals(sret) /\ total_kept = SumKept(sret)
          /\ total_lines = SumLens(sfiles) /\ total_kept = Len(out.rows)

C10_Witness ==
    /\ spc = "done" /\ Len(sfiles) = 2
    /\ Len(sfiles[1]) >= 1 /\ Len(sfiles[2]) >= 1
    /\ sret[1].kept >= 1 /\ sret[2].kept < sret[2].total
    /\ total_lines = 3 /\ total_kept = 2

\* C11: the text of every row written holds no newline and neither starts nor
\* ends with whitespace.
C11_TextNormalized ==
    \A i \in 1..Len(out.rows) :
       LET t == out.rows[i].text
       IN /\ \A k \in 1..Len(t) : t[k] # "\n"
          /\ t # <<>> => (t[1] \notin Whitespace /\ t[Len(t)] \notin Whitespace)

\* a row written from a text with an interior newline, then one written from
\* a text with leading whitespace
C11_Witness ==
    /\ spc = "scan" /\ ~sraised /\ Len(out.rows) >= 2
    /\ sline.text = <<" ", "a">>
    /\ out.rows[Len(out.rows)] = Row(sline)
    /\ out.rows[Len(out.rows)].text = <<"a">>
    /\ out.rows[Len(out.rows) - 1].text = <<"a", " ", "a">>

\* C12: the header is written once, before any row; the output changes
\* otherwise only by the row of a kept record being appended, in the step that
\* reads that record's line; the lines of a file are read in line order and the
\* files are scanned one after the other in ascending path order, all of them
\* before the run ends.
C12_HeaderThenRowsInOrder ==
    [][/\ out'.header # out.header =>
            (out.header = 0 /\ out'.header = 1 /\ out.rows = <<>> /\ out'.rows = <<>>)
       /\ out'.rows # out.rows =>
            /\ out.header = 1 /\ out'.header = 1
            /\ out'.rows = Append(out.rows, Row(sline'))
            /\ ~sraised' /\ KeepRule(sline', min_len)
            /\ sfi' = sfi /\ spos' = spos + 1 /\ skept' = skept + 1
       /\ (sfi' = sfi /\ skept' # skept) =>
            (skept' = skept + 1 /\ Len(out'.rows) = Len(out.rows) + 1)
       /\ (sfi' = sfi /\ spos' # spos) =>
            (spos' = spos + 1 /\ spos' <= Len(sfiles[jsonl_files[sfi]]))
       /\ sfi' # sfi =>
            /\ sfi' = sfi + 1 /\ spos' = 0
            /\ sfi >= 1 => (/\ spos = Len(sfiles[jsonl_files[sfi]])
                            /\ jsonl_files[sfi] < jsonl_files[sfi'])
       /\ spc' = "done" =>
            /\ {jsonl_files[i] : i \in 1..sfi} = 1..Len(sfiles)
            /\ Len(out.rows) = total_kept
      ]_vars

\* a finished run over two files that kept a record of each
C12_Witness ==
    /\ spc = "done" /\ Len(jsonl_files) = 2 /\ out.header = 1
    /\ sret[1].rows >= 1 /\ sret[2].rows >= 1
    /\ Len(out.rows) = sret[1].rows + sret[2].rows

\* C19: every row of the output has a non-empty url that is_blog_url accepts
\* and a text, as written, that is non-empty and at least min_len long.
C19_RowsMeetEmissionInvariant ==
    \A i \in 1..Len(out.rows) :
       /\ ~UrlIsEmpty(out.rows[i].url)
       /\ is_blog_url(out.rows[i].url)
       /\ out.rows[i].text # <<>>
       /\ Len(out.rows[i].text) >= min_len

-----------------------------------------------------------------------------
(* Stage run properties *)

\* C13: a run of a stage that finds no input item starts no call, processes
\* nothing and ends with a non-zero exit code.
C13_NoItemsExitsNonZero ==
    /\ rpc = "noitems" => (task = <<>> /\ exit_code \notin {-1, 0})
    /\ spc = "nofiles" => (out.rows = <<>> /\ ScanExitCode \notin {-1, 0})

\* the calls of the run that logged the outcome o
WithOutcome(o) == {i \in DOMAIN task : task[i].pc = "returned" /\ task[i].outcome = o}

\* the destination file of item i
Dest(i) == IF stage = "fetch" THEN safe_filename(items[i]) ELSE DstName(items[i])

\* C14: a failed item neither ends the run nor changes its exit code: while
\* the pool works the process has not exited, and a run with items ends only
\* with every item at its own outcome and with exit code 0.
C14_ItemFailureNeverAborts ==
    /\ rpc = "pool" => exit_code = -1
    /\ rpc = "done" =>
          /\ exit_code = 0
          /\ DOMAIN task = 1..Len(items) /\ items # <<>>
          /\ \A i \in DOMAIN task :
                /\ task[i].pc = "returned"
                /\ task[i].outcome \in {"Skipped", "Completed", "Failed"}

\* two urls with files of their own and retry 2: the first one's two
\* attempts failed, the second one was downloaded after it, and the run ended
C14_Witness ==
    /\ stage = "fetch" /\ rpc = "done" /\ exit_code = 0
    /\ Len(items) = 2 /\ rretry = 2 /\ workers = 1
    /\ Dest(1) # Dest(2)
    /\ WithOutcome("Failed") = {1} /\ task[1].attempt = 2
    /\ WithOutcome("Completed") = {2}

\* C15: never more than max_workers calls are running.
C15_InFlightAtMostWorkers ==
    Cardinality(InFlight) <= workers

\* the pool is full and a call waits in the queue
C15_Witness ==
    /\ rpc = "pool" /\ workers = 2 /\ Cardinality(InFlight) = workers
    /\ \E i \in DOMAIN task : task[i].pc = "queued"

\* C16: two distinct items of a run have distinct destination files, and two
\* running calls never have the same one.
C16_DestinationsDisjoint ==
    /\ \A i, j \in DOMAIN task :
          (i # j /\ items[i] # items[j]) => Dest(i) # Dest(j)
    /\ \A i, j \in InFlight : i # j => Dest(i) # Dest(j)

\* C17: every item is handed to a worker at most once and logs at most one
\* outcome, a returned call has been handed out once and has logged one of the
\* three outcomes; the run is over only when every item's call has returned;
\* and every run ends.
C17_EveryItemOnceAndRunEnds ==
    /\ [](\A i \in DOMAIN task :
            /\ task[i].disp <= 1 /\ task[i].outs <= 1
            /\ task[i].pc = "queued" => (task[i].disp = 0 /\ task[i].outs = 0)
            /\ i \in InFlight => task[i].disp = 1
            /\ task[i].outs = (IF task[i].outcome = "None" THEN 0 ELSE 1)
            /\ task[i].pc = "returned" =>
                  /\ task[i].disp = 1 /\ task[i].outs = 1
                  /\ task[i].outcome \in {"Skipped", "Completed", "Failed"})
    /\ [](rpc = "done" =>
            /\ DOMAIN task = 1..Len(items)
            /\ \A i \in DOMAIN task : task[i].pc = "returned")
    /\ <>(rpc \in {"done", "noitems"})

\* an extract run over three files, ended, one call having failed
C17_Witness ==
    /\ stage = "extract" /\ rpc = "done" /\ Len(items) = 3
    /\ \A i \in DOMAIN task : task[i].disp = 1 /\ task[i].outs = 1
    /\ WithOutcome("Failed") # {} /\ WithOutcome("Completed") # {}

-----------------------------------------------------------------------------
(* Runner properties *)

\* C20: in a run of stage "both", unzip.py is handed the timestamp that the
\* download process gave its output directory, followed by "_download", and
\* it is started only once the download process has exited with status 0.
C20_UnzipGetsDownloadTimestamp ==
    (pstage = "both" /\ passed # NoVar)
        => (passed = DownloadTimestamp(ts) /\ dl_code = 0)

====
